---- MODULE Spec2Model ----
(***************************************************************************)
(* Model of python/paddle/fluid/dygraph/dygraph_to_static/                 *)
(* ast_transformer.py: IfElseTransformer, BasicApiTransformer and           *)
(* DygraphToStaticAst.  Syntax trees are records; a node's kind is its      *)
(* field k, named after the gast class.                                     *)
(***************************************************************************)
EXTENDS Integers, Sequences, FiniteSets, TLC

VARIABLES
    \* IfElseTransformer
    root,               \* self.root: the tree being rewritten
    new_func_nodes,     \* self.new_func_nodes: cond statement -> <<true_fn, false_fn>>
    name_cnt,           \* unique_name counter of the true_fn / false_fn prefixes
    visit_log,          \* per visited statement: the node given to visit and the node returned
    ie_pc,              \* position inside IfElseTransformer.transform
    \* BasicApiTransformer
    fn_body,            \* statements of the function body still as parsed
    out_body,           \* the statements the visit has returned so far
    api_idx,            \* index in fn_body of the next statement to visit
    class_node_dict,    \* self.class_node_dict: rendered target -> constructor call
    feed_name_to_arg_id,    \* self.feed_name_to_arg_id
    name_to_tensor_shape,   \* self.name_to_tensor_shape
    scope_var_type_dict,    \* self.scope_var_type_dict
    name_ids,           \* unique_name: key -> next suffix
    api_log,            \* per visited statement: input, output, feed map before and after
    api_pc,             \* "visit", "done" or "raised"
    \* a call of BasicApiTransformer.is_tensor_shape
    shape_node,         \* the gast.Attribute it is given
    shape_result,       \* <<>> before the call, then <<what it returned>>
    \* DygraphToStaticAst
    func_defs,          \* the function definitions of the source, in visit order
    def_idx,            \* index of the next function definition to visit
    out_defs,           \* the function definitions visit_FunctionDef returned
    decorate_func_name, \* self.decorate_func_name
    arg_name_to_idx,    \* self.arg_name_to_idx
    feed_name_to_arg_name,  \* self.feed_name_to_arg_name
    passes,             \* the passes run so far, in order
    module_name,        \* what get_module_name returned
    pc                  \* position inside get_static_ast / transfer_from_node_type

ie_vars == <<root, new_func_nodes, name_cnt, visit_log, ie_pc>>

api_vars == <<fn_body, out_body, api_idx, class_node_dict, feed_name_to_arg_id,
              name_to_tensor_shape, scope_var_type_dict, name_ids, api_log, api_pc>>

shape_vars == <<shape_node, shape_result>>

orch_vars == <<func_defs, def_idx, out_defs, decorate_func_name, arg_name_to_idx,
               feed_name_to_arg_name, passes, module_name, pc>>

vars == <<ie_vars, api_vars, shape_vars, orch_vars>>

-----------------------------------------------------------------------------
(* Bounds *)

\* Largest number of statements in the function body given to IfElseTransformer.
MaxNodes == 4

\* Largest number of statements in the function body given to BasicApiTransformer.
MaxStmts == 3

\* Largest number of function definitions in the source given to DygraphToStaticAst.
MaxDefs == 2

-----------------------------------------------------------------------------
(* Expression nodes (gast.Name, gast.Attribute, gast.Call, gast.Subscript) *)

Name(id) == [k |-> "Name", id |-> id]
Attribute(value, attr) == [k |-> "Attribute", value |-> value, attr |-> attr]
Call(func, args) == [k |-> "Call", func |-> func, args |-> args, keywords |-> <<>>]
CallKw(func, args, keywords) ==
    [k |-> "Call", func |-> func, args |-> args, keywords |-> keywords]
keyword(arg, value) == [arg |-> arg, value |-> value]
Num(n) == [k |-> "Num", n |-> n]
Subscript(value, slice) == [k |-> "Subscript", value |-> value, slice |-> slice]

\* x.numpy()
NumpyCall(x) == Call(Attribute(Name(x), "numpy"), <<>>)

(* Statement nodes *)
Assign(target, value) == [k |-> "Assign", target |-> target, value |-> value]
If(test, body, orelse) == [k |-> "If", test |-> test, body |-> body, orelse |-> orelse]
While(test, body, orelse) == [k |-> "While", test |-> test, body |-> body, orelse |-> orelse]
FunctionDef(name, body) == [k |-> "FunctionDef", name |-> name, body |-> body]
\* a function definition with its decorators (the names d.id)
DecoratedDef(name, body, decorator_list) ==
    [k |-> "FunctionDef", name |-> name, body |-> body, decorator_list |-> decorator_list]
Return == [k |-> "Return"]
ReturnValue(value) == [k |-> "Return", value |-> value]
Expr(value) == [k |-> "Expr", value |-> value]
Pass == [k |-> "Pass"]
Module(body) == [k |-> "Module", body |-> body]

-----------------------------------------------------------------------------
(* Collaborators of IfElseTransformer that live in ast_utils *)

\* is_control_flow_if(test, static_analysis_visitor): the test depends on a
\* graph tensor.  Tensor-valued names are the ones listed here.
TensorNames == {"pred", "x"}

RECURSIVE ExprNames(_)
ExprNames(e) ==
    CASE e.k = "Name" -> {e.id}
      [] e.k = "Attribute" -> ExprNames(e.value)
      [] e.k = "Subscript" -> ExprNames(e.value) \cup ExprNames(e.slice)
      [] e.k = "Call" ->
            ExprNames(e.func) \cup UNION {ExprNames(e.args[i]) : i \in DOMAIN e.args}

is_control_flow_if(test) == ExprNames(test) \cap TensorNames # {}

\* transform_if_else(node, root): the two branch functions.  Their bodies are
\* the branch statement lists (the same statement objects) followed by a return.
TrueFuncName(n) == <<"true_fn", n>>
FalseFuncName(n) == <<"false_fn", n>>
transform_if_else(node, n) ==
    << FunctionDef(TrueFuncName(n), node.body \o <<Return>>),
       FunctionDef(FalseFuncName(n), node.orelse \o <<Return>>) >>

\* create_cond_node(return_name_ids, pred, true_func, false_func): the statement
\* calling fluid.layers.cond(pred, lambda: true_func(), lambda: false_func()).
create_cond_node(pred, true_func, false_func) ==
    [k |-> "Cond", pred |-> pred, true_fn |-> true_func.name, false_fn |-> false_func.name]

-----------------------------------------------------------------------------
(* IfElseTransformer *)

\* visit_Call: a call of an attribute named numpy is replaced by the
\* attribute's receiver; no child of a call is visited.
visit_Call(node) ==
    IF node.func.k = "Attribute" /\ node.func.attr = "numpy"
    THEN node.func.value
    ELSE node

\* NodeTransformer.visit on an expression: visit_Call for a call,
\* generic_visit (visit every child field) for the other kinds.
RECURSIVE VisitExpr(_)
VisitExpr(e) ==
    CASE e.k = "Call" -> visit_Call(e)
      [] e.k = "Attribute" -> [e EXCEPT !.value = VisitExpr(e.value)]
      [] e.k = "Subscript" ->
            [e EXCEPT !.value = VisitExpr(e.value), !.slice = VisitExpr(e.slice)]
      [] OTHER -> e

NoFuncs == [c \in {} |-> <<>>]

Result(node, n, fns, log) == [node |-> node, n |-> n, fns |-> fns, log |-> log]

\* NodeTransformer.visit on a statement and generic_visit on a statement list.
\* n is the unique_name counter; fns collects the new_func_nodes entries and
\* log the (visited, returned) pairs.
RECURSIVE VisitStmt(_, _), VisitList(_, _)

VisitList(ss, n) ==
    IF ss = <<>> THEN Result(<<>>, n, NoFuncs, {})
    ELSE LET h == VisitStmt(Head(ss), n)
             t == VisitList(Tail(ss), h.n)
         IN Result(<<h.node>> \o t.node, t.n, h.fns @@ t.fns, h.log \cup t.log)

\* The body of visit_If once need_transform is known.
IfResult(need_transform, node, n) ==
    LET \* self.generic_visit(node): test, body, orelse in field order
        b == VisitList(node.body, n)
        o == VisitList(node.orelse, b.n)
        visited == [node EXCEPT !.test = VisitExpr(node.test),
                                !.body = b.node, !.orelse = o.node]
        fns == b.fns @@ o.fns
        log == b.log \cup o.log
    IN IF need_transform
       THEN LET funcs == transform_if_else(visited, o.n)
                new_node == create_cond_node(visited.test, funcs[1], funcs[2])
            IN Result(new_node, o.n + 1, (new_node :> funcs) @@ fns,
                      log \cup {[in |-> node, out |-> new_node]})
       ELSE Result(visited, o.n, fns, log \cup {[in |-> node, out |-> visited]})

\* A visit_If that rewrites every conditional, whatever its test.
visit_If_always(node, n) == IfResult(TRUE, node, n)

visit_If(node, n) == IfResult(is_control_flow_if(node.test), node, n)

VisitStmt(s, n) ==
    CASE s.k = "If" -> visit_If(s, n)
      [] s.k = "Assign" ->
            LET out == [s EXCEPT !.value = VisitExpr(s.value)]
            IN Result(out, n, NoFuncs, {[in |-> s, out |-> out]})
      [] s.k = "While" ->
            LET b == VisitList(s.body, n)
                o == VisitList(s.orelse, b.n)
            IN Result([s EXCEPT !.test = VisitExpr(s.test),
                                !.body = b.node, !.orelse = o.node],
                      o.n, b.fns @@ o.fns, b.log \cup o.log)
      [] s.k \in {"FunctionDef", "Module"} ->
            LET b == VisitList(s.body, n)
            IN Result([s EXCEPT !.body = b.node], b.n, b.fns, b.log)
      [] s.k \in {"Expr", "Return"} /\ "value" \in DOMAIN s ->
            Result([s EXCEPT !.value = VisitExpr(s.value)], n, NoFuncs, {})
      [] OTHER -> Result(s, n, NoFuncs, {})

\* hasattr(parent_node, 'body')
HasBody(node) == node.k \in {"Module", "FunctionDef", "If", "While"}

\* _insert_func_nodes: the loop over parent_node.body from its last index down
\* (idx counts from 1 here), and the function itself.  m is new_func_nodes.
RECURSIVE insert_func_nodes(_, _), InsertLoop(_, _, _)

InsertLoop(body, idx, m) ==
    IF idx < 1 THEN [body |-> body, m |-> m]
    ELSE LET child_node == body[idx] IN
         IF child_node \in DOMAIN m
         THEN InsertLoop(SubSeq(body, 1, idx - 1) \o m[child_node]
                             \o SubSeq(body, idx, Len(body)),
                         idx + Len(m[child_node]) - 1,
                         [c \in DOMAIN m \ {child_node} |-> m[c]])
         ELSE LET r == insert_func_nodes(child_node, m)
              IN InsertLoop([body EXCEPT ![idx] = r.node], idx - 1, r.m)

insert_func_nodes(parent_node, m) ==
    IF ~(DOMAIN m # {} /\ HasBody(parent_node))
    THEN [node |-> parent_node, m |-> m]
    ELSE LET r == InsertLoop(parent_node.body, Len(parent_node.body), m)
         IN [node |-> [parent_node EXCEPT !.body = r.body], m |-> r.m]

-----------------------------------------------------------------------------
(* Inputs of IfElseTransformer: function bodies of at most MaxNodes statements *)

\* Values of the assignments: a, x.numpy(), x.numpy()[i], foo(x.numpy()[i])
LeafValues ==
    { Name("a"),
      NumpyCall("x"),
      Subscript(NumpyCall("x"), Name("i")),
      Call(Name("foo"), <<Subscript(NumpyCall("x"), Name("i"))>>) }

\* Tests of the conditionals: pred is a graph tensor, flag a host value.
IfTests == {Name("pred"), Name("flag")}

\* Level(prev, n): the statements (stmts) and the statement lists (seqs) made of
\* exactly n statement nodes, prev[j + 1] being the level of j < n nodes.
\* A body is never empty, an else branch may be.
Level(prev, n) ==
    LET stmts ==
            IF n = 1 THEN {Assign("y", v) : v \in LeafValues}
            ELSE UNION { UNION { { If(t, b, o) : t \in IfTests }
                                   \cup { While(Name("flag"), b, o) }
                                 : b \in prev[i + 1].seqs, o \in prev[n - i].seqs }
                         : i \in 1..(n - 1) }
        seqs ==
            UNION { { <<s>> \o r : s \in (IF j = n THEN stmts ELSE prev[j + 1].stmts),
                                   r \in prev[n - j + 1].seqs }
                    : j \in 1..n }
    IN [stmts |-> stmts, seqs |-> seqs]

RECURSIVE Levels(_)
Levels(n) ==
    IF n = 0 THEN << [stmts |-> {}, seqs |-> {<<>>}] >>
    ELSE LET prev == Levels(n - 1) IN Append(prev, Level(prev, n))

\* The levels of fewer than MaxNodes statements; a function body is built in
\* InitIfElse from its first statement and the statements after it.
Trees == Levels(MaxNodes - 1)

Rests(n) == UNION { Trees[m + 1].seqs : m \in 0..n }

-----------------------------------------------------------------------------
(* The variables of a transformer that is not running *)

NoMap == [x \in {} |-> <<>>]

ApiIdle ==
    /\ fn_body = <<>>
    /\ out_body = <<>>
    /\ api_idx = 0
    /\ class_node_dict = NoMap
    /\ feed_name_to_arg_id = NoMap
    /\ name_to_tensor_shape = NoMap
    /\ scope_var_type_dict = NoMap
    /\ name_ids = NoMap
    /\ api_log = <<>>
    /\ api_pc = "idle"

ShapeIdle ==
    /\ shape_node = Name("")
    /\ shape_result = <<>>

None == "None"

OrchIdle ==
    /\ func_defs = <<>>
    /\ def_idx = 0
    /\ out_defs = <<>>
    /\ decorate_func_name = None
    /\ arg_name_to_idx = NoMap
    /\ feed_name_to_arg_name = NoMap
    /\ passes = <<>>
    /\ module_name = "none"
    /\ pc = "idle"

IfElseIdle ==
    /\ root = Module(<<>>)
    /\ new_func_nodes = NoMap
    /\ name_cnt = 0
    /\ visit_log = {}
    /\ ie_pc = "idle"

-----------------------------------------------------------------------------
(* IfElseTransformer.transform *)

InitIfElse ==
    /\ \E j \in 1..MaxNodes : \E rest \in Rests(MaxNodes - j) :
          \/ /\ j = 1
             /\ \E v \in LeafValues :
                   root = Module(<<FunctionDef("f", <<Assign("y", v)>> \o rest)>>)
          \/ \E i \in 1..(j - 1) :
                \E b \in Trees[i + 1].seqs, o \in Trees[j - i].seqs :
                   \E first \in {If(t, b, o) : t \in IfTests} \cup {While(Name("flag"), b, o)} :
                      root = Module(<<FunctionDef("f", <<first>> \o rest)>>)
    /\ new_func_nodes = NoFuncs
    /\ name_cnt = 0
    /\ visit_log = {}
    /\ ie_pc = "transform"
    /\ ApiIdle /\ ShapeIdle /\ OrchIdle

\* self.visit(self.root)
Visit ==
    /\ ie_pc = "transform"
    /\ LET r == VisitStmt(root, name_cnt)
       IN /\ root' = r.node
          /\ new_func_nodes' = r.fns
          /\ name_cnt' = r.n
          /\ visit_log' = r.log
    /\ ie_pc' = "after_visit"
    /\ UNCHANGED <<api_vars, shape_vars, orch_vars>>

\* self.after_visit(self.root)
after_visit ==
    /\ ie_pc = "after_visit"
    /\ LET r == insert_func_nodes(root, new_func_nodes)
       IN /\ root' = r.node
          /\ new_func_nodes' = r.m
    /\ ie_pc' = "done"
    /\ UNCHANGED <<name_cnt, visit_log, api_vars, shape_vars, orch_vars>>

NextIfElse == Visit \/ after_visit

SpecIfElse == InitIfElse /\ [][NextIfElse]_vars

-----------------------------------------------------------------------------
(* Collaborators of BasicApiTransformer that live in utils and static_analysis *)

\* fluid.<mod>.<name>
FluidApi(mod, name) == Attribute(Attribute(Name("fluid"), mod), name)

RECURSIVE RootName(_)
RootName(e) ==
    IF e.k = "Attribute" THEN RootName(e.value)
    ELSE IF e.k = "Name" THEN e.id ELSE ""

\* is_paddle_api: the callee lives in paddle.fluid
is_paddle_api(node) == node.func.k = "Attribute" /\ RootName(node.func) = "fluid"
\* is_dygraph_api: the callee lives in paddle.fluid.dygraph
is_dygraph_api(node) ==
    /\ node.func.k = "Attribute"
    /\ node.func.value.k = "Attribute" /\ node.func.value.attr = "dygraph"
    /\ node.func.value.value.k = "Name" /\ node.func.value.value.id = "fluid"
\* is_to_variable: a dygraph api whose last name is to_variable
is_to_variable(node) == is_dygraph_api(node) /\ node.func.attr = "to_variable"

\* dygraph_class_to_static_api: the dygraph classes that have a static equivalent
dygraph_class_to_static_api == ("Linear" :> "fc")

\* astor.to_source on an expression: its text, as a sequence of tokens
RECURSIVE to_source(_), SourceOfAll(_)
to_source(e) ==
    CASE e.k = "Name" -> <<e.id>>
      [] e.k = "Num" -> <<ToString(e.n)>>
      [] e.k = "Attribute" -> to_source(e.value) \o <<".", e.attr>>
      [] e.k = "Subscript" -> to_source(e.value) \o <<"[">> \o to_source(e.slice) \o <<"]">>
      [] e.k = "Call" ->
            to_source(e.func) \o <<"(">> \o SourceOfAll(e.args)
                \o SourceOfAll([i \in DOMAIN e.keywords |-> e.keywords[i].value]) \o <<")">>
SourceOfAll(es) ==
    IF es = <<>> THEN <<>> ELSE to_source(Head(es)) \o <<",">> \o SourceOfAll(Tail(es))

\* A node the transformer built itself: it is not in node_to_wrapper_map.
\* made = "attribute": built by visit_Attribute; made = "name": built by visit_Name.
IsMade(e) == "made" \in DOMAIN e

\* create_api_shape_node(tensor_shape_node): fluid.layers.shape(<receiver>)
create_api_shape_node(tensor_shape_node, by) ==
    [k |-> "Call", func |-> FluidApi("layers", "shape"),
     args |-> <<tensor_shape_node.value>>, keywords |-> <<>>, made |-> by]

\* to_assign_node(node): the call becomes fluid.layers.assign, keeping its first
\* positional argument, or else its `value` keyword renamed to `input`.
to_assign_node(node) ==
    LET values == {i \in DOMAIN node.keywords : node.keywords[i].arg = "value"}
        first == CHOOSE i \in values : \A j \in values : i <= j
    IN IF node.args # <<>>
       THEN [node EXCEPT !.func = FluidApi("layers", "assign"),
                         !.args = <<node.args[1]>>, !.keywords = <<>>]
       ELSE IF values # {}
       THEN [node EXCEPT !.func = FluidApi("layers", "assign"), !.args = <<>>,
                         !.keywords = <<keyword("input", node.keywords[first].value)>>]
       ELSE [node EXCEPT !.func = FluidApi("layers", "assign")]

\* update_args_of_func(node, dygraph_node, method_name): matches the arguments
\* of node against the signature of dygraph_node's method, in place.  The callee
\* of node, its argument values and their order stay as they are.
update_args_of_func(node, dygraph_node, method_name) ==
    [node EXCEPT !.args = [i \in DOMAIN node.args |-> node.args[i]],
                 !.keywords = [i \in DOMAIN node.keywords |-> node.keywords[i]]]

\* to_static_ast(node, class_node): the call becomes a call of the static
\* equivalent, the constructor's arguments appended to its own.
to_static_ast(node, class_node) ==
    [node EXCEPT !.func = FluidApi("layers", dygraph_class_to_static_api[class_node.func.attr]),
                 !.args = node.args \o class_node.args,
                 !.keywords = node.keywords \o class_node.keywords]

DECORATOR_NAMES == {"dygraph_to_static_output", "dygraph_to_static_graph"}

\* d for d in decorator_list if d.id not in DECORATOR_NAMES
RECURSIVE StripDecorators(_)
StripDecorators(ds) ==
    IF ds = <<>> THEN <<>>
    ELSE IF Head(ds) \in DECORATOR_NAMES THEN StripDecorators(Tail(ds))
    ELSE <<Head(ds)>> \o StripDecorators(Tail(ds))

-----------------------------------------------------------------------------
(* BasicApiTransformer.  S is the transformer's state: class_node_dict,        *)
(* feed_name_to_arg_id, name_to_tensor_shape, scope_var_type_dict, the          *)
(* unique_name counters (name_ids) and whether an exception was raised.         *)

\* An is_tensor_shape that asks the scope type environment only.
is_tensor_shape_by_type(node, S) ==
    /\ node.attr = "shape"
    /\ node.value.k = "Name"
    /\ node.value.id \in DOMAIN S.scope_var_type_dict
    /\ LET var_type_set == S.scope_var_type_dict[node.value.id]
       IN ~("NUMPY_NDARRAY" \in var_type_set)
          /\ ~("TENSOR" \notin var_type_set /\ "PADDLE_RETURN_TYPES" \notin var_type_set)

is_tensor_shape(node, S) ==
    IF node.attr # "shape" THEN FALSE
    ELSE IF node.value.k # "Name" THEN FALSE
    ELSE IF node.value.id \in DOMAIN S.name_to_tensor_shape THEN TRUE
    ELSE IF node.value.id \notin DOMAIN S.scope_var_type_dict THEN FALSE
    ELSE LET var_type_set == S.scope_var_type_dict[node.value.id]
         IN IF "NUMPY_NDARRAY" \in var_type_set THEN FALSE
            ELSE IF "TENSOR" \notin var_type_set /\ "PADDLE_RETURN_TYPES" \notin var_type_set
            THEN FALSE
            ELSE TRUE

\* copy.deepcopy(node): the copies are new nodes, none is in node_to_wrapper_map
RECURSIVE deepcopy(_)
deepcopy(e) ==
    IF "arg" \in DOMAIN e THEN [arg |-> e.arg, value |-> deepcopy(e.value)]
    ELSE CASE e.k = "Name" -> [k |-> "Name", id |-> e.id, made |-> "copy"]
           [] e.k = "Num" -> [k |-> "Num", n |-> e.n, made |-> "copy"]
           [] e.k = "Attribute" ->
                [k |-> "Attribute", value |-> deepcopy(e.value), attr |-> e.attr,
                 made |-> "copy"]
           [] e.k = "Subscript" ->
                [k |-> "Subscript", value |-> deepcopy(e.value), slice |-> deepcopy(e.slice),
                 made |-> "copy"]
           [] e.k = "Call" ->
                [k |-> "Call", func |-> deepcopy(e.func),
                 args |-> [i \in DOMAIN e.args |-> deepcopy(e.args[i])],
                 keywords |-> [i \in DOMAIN e.keywords |-> deepcopy(e.keywords[i])],
                 made |-> "copy"]

\* visit_Name; used is the result of _used_by_paddle_api(node)
visit_Name(node, used, S) ==
    IF node.id \in DOMAIN S.name_to_tensor_shape /\ used
    THEN LET tensor_shape_node == S.name_to_tensor_shape[node.id]
         IN IF tensor_shape_node.k = "Attribute"
            THEN create_api_shape_node(tensor_shape_node, "name")
            ELSE IF tensor_shape_node.k = "Subscript"
            THEN [k |-> "Subscript",
                  value |-> create_api_shape_node(tensor_shape_node.value, "name"),
                  slice |-> deepcopy(tensor_shape_node.slice), made |-> "name"]
            ELSE node
    ELSE node

\* visit_Attribute
visit_Attribute(node, used, S) ==
    IF used /\ is_tensor_shape(node, S)
    THEN create_api_shape_node(node, "attribute")
    ELSE node

\* NodeTransformer.visit / generic_visit on an expression.  ctx is the first
\* call above the node in the wrapper tree: "paddle" when it is a paddle api
\* (_used_by_paddle_api is true), "other" for another call, "none" for no call.
\* A node the transformer built is not in the wrapper tree: _used_by_paddle_api
\* is false for it, and it is no parent of the nodes it holds.  The receiver
\* visit_Attribute put in the call it built is below the paddle api the
\* attribute was below; the receiver visit_Name put in the call it built is the
\* one of the tracked assignment, below no call.
RECURSIVE GenericVisit(_, _, _)
GenericVisit(e, ctx, S) ==
    CASE e.k = "Name" -> IF IsMade(e) THEN e ELSE visit_Name(e, ctx = "paddle", S)
      [] e.k = "Attribute" -> IF IsMade(e) THEN e ELSE visit_Attribute(e, ctx = "paddle", S)
      [] e.k = "Subscript" ->
            [e EXCEPT !.value = GenericVisit(e.value, ctx, S),
                      !.slice = GenericVisit(e.slice, ctx, S)]
      [] e.k = "Call" ->
            LET c == IF IsMade(e)
                     THEN (IF e.made = "attribute" THEN "paddle"
                           ELSE IF e.made = "name" THEN "none" ELSE ctx)
                     ELSE IF is_paddle_api(e) THEN "paddle" ELSE "other"
            IN [e EXCEPT
                  !.func = GenericVisit(e.func, c, S),
                  !.args = [i \in DOMAIN e.args |-> GenericVisit(e.args[i], c, S)],
                  !.keywords = [i \in DOMAIN e.keywords |->
                       [e.keywords[i] EXCEPT
                           !.value = GenericVisit(e.keywords[i].value, c, S)]]]
      [] OTHER -> e

\* unique_name.generate(key): key_<n>, written <<key, n>>
NextId(S, key) == IF key \in DOMAIN S.name_ids THEN S.name_ids[key] ELSE 0

\* An _update_feed_dict that records an entry for any value expression.
update_feed_dict_any(node, S) ==
    LET values == {i \in DOMAIN node.keywords : node.keywords[i].arg = "value"}
        last == CHOOSE i \in values : \A j \in values : j <= i
    IN IF values = {} /\ node.args = <<>>
       THEN [S EXCEPT !.raised = TRUE]
       ELSE LET value_node == IF values # {} THEN node.keywords[last].value
                              ELSE node.args[1]
                var_name == IF value_node.k = "Name" THEN value_node.id ELSE "expr"
                feed_var_name == <<var_name, NextId(S, var_name)>>
            IN [S EXCEPT
                  !.feed_name_to_arg_id = (feed_var_name :> var_name) @@ @,
                  !.name_ids = (var_name :> (NextId(S, var_name) + 1)) @@ @]

\* _update_feed_dict
update_feed_dict(node, S) ==
    LET values == {i \in DOMAIN node.keywords : node.keywords[i].arg = "value"}
        last == CHOOSE i \in values : \A j \in values : j <= i
    IN IF values = {} /\ node.args = <<>>
       THEN [S EXCEPT !.raised = TRUE]          \* node.args[0]: IndexError
       ELSE LET value_node == IF values # {} THEN node.keywords[last].value
                              ELSE node.args[1]
            IN IF value_node.k # "Name" THEN S
               ELSE LET var_name == value_node.id
                        feed_var_name == <<var_name, NextId(S, var_name)>>
                    IN [S EXCEPT
                          !.feed_name_to_arg_id = (feed_var_name :> var_name) @@ @,
                          !.name_ids = (var_name :> (NextId(S, var_name) + 1)) @@ @]

\* _visit_Call
visit_Call_api(node, S) ==
    IF is_to_variable(node)
    THEN LET S1 == update_feed_dict(node, S)
         IN IF S1.raised THEN [node |-> node, S |-> S1]
            ELSE [node |-> to_assign_node(node), S |-> S1]
    ELSE LET visited == IF is_paddle_api(node) THEN GenericVisit(node, "none", S)
                        ELSE node
             func_name == to_source(visited.func)
         IN IF func_name \in DOMAIN S.class_node_dict
            THEN [node |-> to_static_ast(visited, S.class_node_dict[func_name]), S |-> S]
            ELSE [node |-> visited, S |-> S]

\* iter_child_nodes(node): the children of a node in field order, as steps
\* from the node.  A subscript holds its slice in a gast.Index.
ChildSteps(n) ==
    IF "arg" \in DOMAIN n THEN << <<"value", 0>> >>                 \* gast.keyword
    ELSE CASE n.k = "Call" ->
                << <<"func", 0>> >>
                    \o [i \in 1..Len(n.args) |-> <<"args", i>>]
                    \o [i \in 1..Len(n.keywords) |-> <<"keywords", i>>]
           [] n.k \in {"Attribute", "Index"} -> << <<"value", 0>> >>
           [] n.k = "Subscript" -> << <<"value", 0>>, <<"slice", 0>> >>
           [] OTHER -> <<>>

Child(n, step) ==
    CASE step[1] = "func" -> n.func
      [] step[1] = "args" -> n.args[step[2]]
      [] step[1] = "keywords" -> n.keywords[step[2]]
      [] step[1] = "value" -> n.value
      [] step[1] = "slice" -> [k |-> "Index", value |-> n.slice]

\* the node at path p below n, and n with that node replaced
RECURSIVE NodeAt(_, _), ReplaceAt(_, _, _)
NodeAt(n, p) == IF p = <<>> THEN n ELSE NodeAt(Child(n, Head(p)), Tail(p))

ReplaceAt(n, p, new) ==
    IF p = <<>> THEN new
    ELSE CASE Head(p)[1] = "func" -> [n EXCEPT !.func = ReplaceAt(@, Tail(p), new)]
           [] Head(p)[1] = "args" -> [n EXCEPT !.args[Head(p)[2]] = ReplaceAt(@, Tail(p), new)]
           [] Head(p)[1] = "keywords" ->
                [n EXCEPT !.keywords[Head(p)[2]] = ReplaceAt(@, Tail(p), new)]
           [] Head(p)[1] = "value" -> [n EXCEPT !.value = ReplaceAt(@, Tail(p), new)]
           [] Head(p)[1] = "slice" ->
                [n EXCEPT !.slice = ReplaceAt([k |-> "Index", value |-> @], Tail(p), new).value]

\* todo.extend(iter_child_nodes(node)) for a node the walk takes from todo item
\* `at`.  kids are its children then, in order: [step, node, held].  A child
\* the node still holds after the visit is queued as a path; one it no longer
\* holds is queued as a tree of its own.
RECURSIVE Extend(_, _, _, _)
Extend(forest, todo, at, kids) ==
    IF kids = <<>> THEN [forest |-> forest, todo |-> todo]
    ELSE IF Head(kids).held
    THEN Extend(forest, Append(todo, [t |-> at.t, p |-> Append(at.p, Head(kids).step)]),
                at, Tail(kids))
    ELSE Extend(Append(forest, Head(kids).node),
                Append(todo, [t |-> Len(forest) + 1, p |-> <<>>]), at, Tail(kids))

\* the children of n, all still held where they are
Children(n) ==
    [j \in 1..Len(ChildSteps(n)) |->
        [step |-> ChildSteps(n)[j], node |-> Child(n, ChildSteps(n)[j]), held |-> TRUE]]

\* The children of the call n after self._visit_Call(n) made `visited` of it.
\* to_assign_node keeps the first positional argument, or else the first
\* `value` keyword (now the only keyword), and drops the rest.  generic_visit
\* and to_static_ast put new nodes in place of names and attributes and change
\* the other children in place.
ChildrenAfter(n, visited) ==
    LET steps == ChildSteps(n)
        values == {i \in DOMAIN n.keywords : n.keywords[i].arg = "value"}
        kept == IF n.args # <<>> THEN <<"args", 1>>
                ELSE <<"keywords", CHOOSE i \in values : \A j \in values : i <= j>>
        kept_step == IF n.args # <<>> THEN <<"args", 1>> ELSE <<"keywords", 1>>
    IN [j \in 1..Len(steps) |->
          IF is_to_variable(n)
          THEN [step |-> kept_step, node |-> Child(n, steps[j]), held |-> steps[j] = kept]
          ELSE [step |-> steps[j], node |-> Child(n, steps[j]),
                held |-> \/ "k" \notin DOMAIN Child(n, steps[j])
                         \/ Child(n, steps[j]).k \notin {"Name", "Attribute"}
                         \/ Child(visited, steps[j]) = Child(n, steps[j])]]

\* `for child_node in gast.walk(value): if isinstance(child_node, gast.Call):
\* ... self._visit_Call(child_node)`.  gast.walk is breadth-first: it takes the
\* first node of todo, queues the children the node has then, and yields it.
\* forest[1] is the expression walked; the further trees are nodes the walk
\* had queued that their parent no longer holds.  A todo item is a tree of the
\* forest and a path in it.  stop is true for the walk of visit_Expr, which
\* returns at the first dygraph api it is given.
RECURSIVE Walk(_, _, _, _), WalkNode(_, _, _, _, _), WalkCall(_, _, _, _, _, _),
          WalkOn(_, _, _)
Walk(forest, todo, S, stop) ==
    IF todo = <<>> \/ S.raised THEN [node |-> forest[1], S |-> S, dropped |-> FALSE]
    ELSE WalkNode(forest, todo, S, stop, NodeAt(forest[Head(todo).t], Head(todo).p))

WalkOn(q, S, stop) == Walk(q.forest, q.todo, S, stop)

WalkNode(forest, todo, S, stop, n) ==
    IF "k" \in DOMAIN n /\ n.k = "Call"
    THEN IF stop /\ is_dygraph_api(n)
         THEN [node |-> forest[1], S |-> S, dropped |-> TRUE]
         ELSE WalkCall(forest, todo, S, stop, n, visit_Call_api(n, S))
    ELSE WalkOn(Extend(forest, Tail(todo), Head(todo), Children(n)), S, stop)

\* r is what self._visit_Call(n) made of the call n, which the walk took from
\* the head of todo
WalkCall(forest, todo, S, stop, n, r) ==
    IF r.S.raised THEN [node |-> forest[1], S |-> r.S, dropped |-> FALSE]
    ELSE WalkOn(Extend([forest EXCEPT ![Head(todo).t] = ReplaceAt(@, Head(todo).p, r.node)],
                       Tail(todo), Head(todo), ChildrenAfter(n, r.node)),
                r.S, stop)

WalkCalls(e, S, stop) == Walk(<<e>>, <<[t |-> 1, p |-> <<>>]>>, S, stop)

\* _update_class_node_dict
update_class_node_dict(node, S) ==
    LET node_value == node.value
    IN IF /\ node_value.k = "Call"
          /\ ~is_to_variable(node_value)
          /\ is_dygraph_api(node_value)
          /\ node_value.func.attr \in DOMAIN dygraph_class_to_static_api
       THEN [hit |-> TRUE,
             S |-> [S EXCEPT !.class_node_dict =
                        (to_source(node.target)
                            :> update_args_of_func(node_value, node_value, "__init__")) @@ @]]
       ELSE [hit |-> FALSE, S |-> S]

\* _update_name_to_tensor_shape
update_name_to_tensor_shape(node, S) ==
    LET target_node == node.target
        value_node == node.value
        Set(v) == [hit |-> TRUE,
                   S |-> [S EXCEPT !.name_to_tensor_shape = (target_node.id :> v) @@ @]]
    IN IF target_node.k # "Name" THEN [hit |-> FALSE, S |-> S]
       ELSE IF value_node.k = "Name" /\ value_node.id \in DOMAIN S.name_to_tensor_shape
       THEN Set(S.name_to_tensor_shape[value_node.id])
       ELSE IF value_node.k = "Attribute" /\ is_tensor_shape(value_node, S)
       THEN Set(value_node)
       ELSE IF /\ value_node.k = "Subscript"
               /\ value_node.value.k = "Attribute"
               /\ is_tensor_shape(value_node.value, S)
       THEN Set(value_node)
       ELSE [hit |-> FALSE, S |-> S]

\* What a visit of a statement gives: out, the statements it returned in place
\* of the node; now, the node as the visit left it in the tree; S.
StmtResult(out, now, S) == [out |-> out, now |-> now, S |-> S]

\* the assignment with the value the walk left
AssignWalked(node, w) ==
    StmtResult(<<[node EXCEPT !.value = w.node]>>, [node EXCEPT !.value = w.node], w.S)

\* visit_Assign
visit_Assign(node, S) ==
    LET c == update_class_node_dict(node, S)
        u == update_name_to_tensor_shape(node, S)
    IN IF c.hit
       THEN StmtResult(<<>>, [node EXCEPT !.value =
                                update_args_of_func(node.value, node.value, "__init__")], c.S)
       ELSE IF u.hit THEN StmtResult(<<node>>, node, u.S)
       ELSE AssignWalked(node, WalkCalls(node.value, S, FALSE))

\* the expression statement with the value the walk left; returned unless the
\* walk met a dygraph api
ExprWalked(node, w) ==
    StmtResult(IF w.dropped THEN <<>> ELSE <<[node EXCEPT !.value = w.node]>>,
               [node EXCEPT !.value = w.node], w.S)

\* visit_Expr
visit_Expr(node, S) == ExprWalked(node, WalkCalls(node.value, S, TRUE))

\* NodeTransformer.visit on a statement, generic_visit on a statement list and
\* on a statement with no visit_ method of its own (its fields in order).  A
\* list is replaced once all its statements are visited: when one raises, the
\* list still holds every statement, as the visits left them.
RECURSIVE ApiVisitStmt(_, _), ApiVisitList(_, _), generic_visit(_, _),
          api_visit_FunctionDef(_, _)
ApiVisitList(ss, S) ==
    IF ss = <<>> \/ S.raised THEN [out |-> ss, S |-> S]
    ELSE LET h == ApiVisitStmt(Head(ss), S)
             t == ApiVisitList(Tail(ss), h.S)
         IN [out |-> (IF t.S.raised THEN <<h.now>> ELSE h.out) \o t.out, S |-> t.S]

generic_visit(s, S) ==
    LET s1 == IF "value" \in DOMAIN s
              THEN [s EXCEPT !.value = GenericVisit(@, "none", S)] ELSE s
        s2 == IF "test" \in DOMAIN s
              THEN [s1 EXCEPT !.test = GenericVisit(@, "none", S)] ELSE s1
        b == IF "body" \in DOMAIN s THEN ApiVisitList(s.body, S) ELSE [out |-> <<>>, S |-> S]
        s3 == IF "body" \in DOMAIN s THEN [s2 EXCEPT !.body = b.out] ELSE s2
        o == IF "orelse" \in DOMAIN s THEN ApiVisitList(s.orelse, b.S)
             ELSE [out |-> <<>>, S |-> b.S]
        s4 == IF "orelse" \in DOMAIN s THEN [s3 EXCEPT !.orelse = o.out] ELSE s3
    IN StmtResult(<<s4>>, s4, o.S)

\* the definition generic_visit left, its decorators removed
Undecorated(g) ==
    StmtResult(<<[g.now EXCEPT !.decorator_list = StripDecorators(@)]>>,
               [g.now EXCEPT !.decorator_list = StripDecorators(@)], g.S)

\* BasicApiTransformer.visit_FunctionDef
api_visit_FunctionDef(node, S) ==
    LET g == generic_visit(node, S)
    IN IF "decorator_list" \in DOMAIN node /\ ~g.S.raised THEN Undecorated(g) ELSE g

ApiVisitStmt(s, S) ==
    CASE s.k = "Assign" -> visit_Assign(s, S)
      [] s.k = "Expr" -> visit_Expr(s, S)
      [] s.k = "FunctionDef" -> api_visit_FunctionDef(s, S)
      [] OTHER -> generic_visit(s, S)

-----------------------------------------------------------------------------
(* BasicApiTransformer.ast_visit over a function body, one statement a step *)

to_variable(args, keywords) == CallKw(FluidApi("dygraph", "to_variable"), args, keywords)

\* The statements a function body is made of.  t and x are graph tensors,
\* v is a parameter of the function, np.array() a host expression.
StmtPool ==
    { Assign(Name("a"), Attribute(Name("t"), "shape")),
      Assign(Name("b"), Name("a")),
      Assign(Name("c"), Subscript(Name("b"), Num(0))),
      Assign(Name("c"), Subscript(Attribute(Name("t"), "shape"), Num(0))),
      Assign(Name("r"), Call(FluidApi("layers", "reshape"),
                             <<Name("x"), Name("a"), Name("b"), Name("c")>>)),
      Assign(Name("y"), to_variable(<<Name("v")>>, <<>>)),
      Assign(Name("y"), Call(Name("foo"), <<to_variable(<<>>, <<keyword("value", Name("v"))>>)>>)),
      Expr(to_variable(<<Name("v")>>, <<>>)),
      ReturnValue(to_variable(<<Name("v")>>, <<>>)),
      If(to_variable(<<Name("v")>>, <<>>), <<Pass>>, <<>>),
      Assign(Name("y"), to_variable(<<Call(Attribute(Name("np"), "array"), <<>>)>>, <<>>)),
      Assign(Name("y"), to_variable(<<>>, <<keyword("value", Attribute(Name("t"), "shape"))>>)),
      Assign(Name("y"), to_variable(<<>>, <<keyword("name", Name("v"))>>)),
      Assign(Name("m"), Call(FluidApi("dygraph", "Linear"), <<Name("k")>>)),
      Assign(Name("out"), Call(Name("m"), <<Name("x")>>)),
      Expr(Call(Name("m"), <<Name("x")>>)),
      ReturnValue(Call(Name("m"), <<Name("x")>>)),
      While(Name("flag"), <<Assign(Name("y"), to_variable(<<Name("v")>>, <<>>))>>, <<>>),
      DecoratedDef("g", <<Assign(Name("y"), to_variable(<<Name("v")>>, <<>>))>>,
                   <<"dygraph_to_static_graph", "other">>),
      Assign(Name("y"), Call(Name("foo"),
                <<Call(Name("bar"), <<to_variable(<<>>, <<>>)>>),
                  to_variable(<<Name("v")>>, <<>>)>>)),
      Assign(Name("r"), Call(FluidApi("layers", "reshape"),
                <<Name("x"), Subscript(Attribute(Name("a"), "shape"), Num(0))>>)) }

\* var_env.get_scope_var_type() of the function's scope
FunctionScope ==
    ("t" :> {"TENSOR"}) @@ ("x" :> {"TENSOR"}) @@ ("n" :> {"NUMPY_NDARRAY"}) @@ ("k" :> {"INT"})

InitApi ==
    /\ \E n \in 1..MaxStmts : fn_body \in [1..n -> StmtPool]
    /\ out_body = <<>>
    /\ api_idx = 1
    /\ class_node_dict = NoMap
    /\ feed_name_to_arg_id = NoMap
    /\ name_to_tensor_shape = NoMap
    /\ scope_var_type_dict = FunctionScope
    /\ name_ids = NoMap
    /\ api_log = <<>>
    /\ api_pc = "visit"
    /\ IfElseIdle /\ ShapeIdle /\ OrchIdle

ApiState ==
    [class_node_dict |-> class_node_dict,
     feed_name_to_arg_id |-> feed_name_to_arg_id,
     name_to_tensor_shape |-> name_to_tensor_shape,
     scope_var_type_dict |-> scope_var_type_dict,
     name_ids |-> name_ids,
     raised |-> FALSE]

\* The visit of fn_body[api_idx] gave r: the maps and the body after it.  The
\* body is what the visits returned so far, or, when the visit raised, every
\* statement as the visits left it.
Visited(r) ==
    /\ class_node_dict' = r.S.class_node_dict
    /\ feed_name_to_arg_id' = r.S.feed_name_to_arg_id
    /\ name_to_tensor_shape' = r.S.name_to_tensor_shape
    /\ name_ids' = r.S.name_ids
    /\ out_body' = IF r.S.raised
                   THEN [i \in 1..(api_idx - 1) |-> api_log[i].now] \o <<r.now>>
                            \o SubSeq(fn_body, api_idx + 1, Len(fn_body))
                   ELSE out_body \o r.out
    /\ api_log' = Append(api_log, [in |-> fn_body[api_idx], out |-> r.out, now |-> r.now,
                                   feed_before |-> feed_name_to_arg_id,
                                   feed_after |-> r.S.feed_name_to_arg_id,
                                   raised |-> r.S.raised])
    /\ api_idx' = api_idx + 1
    /\ api_pc' = IF r.S.raised THEN "raised"
                 ELSE IF api_idx = Len(fn_body) THEN "done" ELSE "visit"
    /\ UNCHANGED <<fn_body, scope_var_type_dict, ie_vars, shape_vars, orch_vars>>

VisitAssign ==
    /\ api_pc = "visit"
    /\ fn_body[api_idx].k = "Assign"
    /\ Visited(visit_Assign(fn_body[api_idx], ApiState))

VisitExprStmt ==
    /\ api_pc = "visit"
    /\ fn_body[api_idx].k = "Expr"
    /\ Visited(visit_Expr(fn_body[api_idx], ApiState))

\* a statement kind with no visit_ method: generic_visit
VisitOtherStmt ==
    /\ api_pc = "visit"
    /\ fn_body[api_idx].k \notin {"Assign", "Expr"}
    /\ Visited(ApiVisitStmt(fn_body[api_idx], ApiState))

NextApi == VisitAssign \/ VisitExprStmt \/ VisitOtherStmt

SpecApi == InitApi /\ [][NextApi]_vars

-----------------------------------------------------------------------------
(* BasicApiTransformer.is_tensor_shape on its own: one call, for any attribute   *)
(* access, Shape-Provenance Map and scope type environment                       *)

NodeVarType == {"NUMPY_NDARRAY", "TENSOR", "PADDLE_RETURN_TYPES", "INT"}

ShapeNodes ==
    { Attribute(v, attr) :
        v \in {Name("v"), Name("w"), Call(Name("f"), <<>>)}, attr \in {"shape", "dtype"} }

\* the maps over the names v and w: each name absent, or bound to one of vals
MapsOver(vals) ==
    UNION { [keys -> vals] : keys \in SUBSET {"v", "w"} }

InitShape ==
    /\ shape_node \in ShapeNodes
    /\ shape_result = <<>>
    /\ name_to_tensor_shape \in MapsOver({Attribute(Name("t"), "shape")})
    /\ scope_var_type_dict \in MapsOver(SUBSET NodeVarType)
    /\ fn_body = <<>> /\ out_body = <<>> /\ api_idx = 0
    /\ class_node_dict = NoMap /\ feed_name_to_arg_id = NoMap /\ name_ids = NoMap
    /\ api_log = <<>> /\ api_pc = "idle"
    /\ IfElseIdle /\ OrchIdle

CallIsTensorShape ==
    /\ shape_result = <<>>
    /\ shape_result' = <<is_tensor_shape(shape_node, ApiState)>>
    /\ UNCHANGED <<shape_node, ie_vars, api_vars, orch_vars>>

NextShape == CallIsTensorShape

SpecShape == InitShape /\ [][NextShape]_vars

-----------------------------------------------------------------------------
(* DygraphToStaticAst: get_static_ast, transfer_from_node_type, get_module_name *)


\* a gast.FunctionDef as the orchestrator sees it: name, positional parameter
\* names, decorator names
Def(name, args, decorator_list) ==
    [name |-> name, args |-> args, decorator_list |-> decorator_list]

DefPool ==
    { Def(nm, args, decs) :
        nm \in {"f", "g"},
        args \in {<<>>, <<"v">>, <<"x", "v">>},
        decs \in {<<>>, <<"dygraph_to_static_graph">>} }

\* The source is a module of at most MaxDefs function definitions.  The body
\* of the first is fn_body, one statement of StmtPool; the others hold a pass.
InitOrch ==
    /\ \E n \in 0..MaxDefs :
          /\ func_defs \in [1..n -> DefPool]
          /\ fn_body \in IF n = 0 THEN {<<>>} ELSE [1..1 -> StmtPool]
    /\ def_idx = 1
    /\ out_defs = <<>>
    /\ decorate_func_name = None
    /\ arg_name_to_idx = NoMap
    /\ feed_name_to_arg_name = NoMap
    /\ passes = <<>>
    /\ module_name = "none"
    /\ pc = "get_static_ast"
    /\ out_body = <<>> /\ api_idx = 1
    /\ class_node_dict = NoMap /\ feed_name_to_arg_id = NoMap
    /\ name_to_tensor_shape = NoMap /\ scope_var_type_dict = NoMap /\ name_ids = NoMap
    /\ api_log = <<>> /\ api_pc = "idle"
    /\ IfElseIdle /\ ShapeIdle

\* get_static_ast up to the call of transfer_from_node_type
get_static_ast ==
    /\ pc = "get_static_ast"
    /\ decorate_func_name' = None
    /\ arg_name_to_idx' = NoMap
    /\ pc' = "generic"
    /\ UNCHANGED <<func_defs, def_idx, out_defs, feed_name_to_arg_name, passes, module_name,
                   ie_vars, api_vars, shape_vars>>

\* enumerate(node.args.args)
ArgIndex(args) == [a \in {args[i] : i \in DOMAIN args} |->
                       (CHOOSE i \in DOMAIN args : args[i] = a /\ \A j \in DOMAIN args :
                            args[j] = a => j <= i) - 1]

\* self.generic_visit(node) over the statements of a function body: the
\* function definitions below are visited, each after the ones it holds.
\* body is the statements after it, defs the definitions visit_FunctionDef
\* returned, in order.
RECURSIVE VisitDefs(_), VisitDefsIn(_)
VisitDefs(ss) ==
    IF ss = <<>> THEN [body |-> <<>>, defs |-> <<>>]
    ELSE LET h == VisitDefsIn(Head(ss))
             t == VisitDefs(Tail(ss))
         IN [body |-> <<h.node>> \o t.body, defs |-> h.defs \o t.defs]

VisitDefsIn(s) ==
    LET b == IF "body" \in DOMAIN s THEN VisitDefs(s.body) ELSE [body |-> <<>>, defs |-> <<>>]
        o == IF "orelse" \in DOMAIN s THEN VisitDefs(s.orelse)
             ELSE [body |-> <<>>, defs |-> <<>>]
        s1 == IF "body" \in DOMAIN s THEN [s EXCEPT !.body = b.body] ELSE s
        s2 == IF "orelse" \in DOMAIN s THEN [s1 EXCEPT !.orelse = o.body] ELSE s1
        decorator_list == IF "decorator_list" \in DOMAIN s
                          THEN StripDecorators(s.decorator_list) ELSE <<>>
        s3 == IF "decorator_list" \in DOMAIN s
              THEN [s2 EXCEPT !.decorator_list = decorator_list] ELSE s2
    IN IF s.k = "FunctionDef"
       THEN [node |-> s3, defs |-> b.defs \o <<Def(s.name, <<>>, decorator_list)>>]
       ELSE [node |-> s2, defs |-> b.defs \o o.defs]

\* the body of the function definition func_defs[i]
BodyOf(i) == IF i = 1 THEN fn_body ELSE <<Pass>>

\* visit_FunctionDef from self.generic_visit(node) on: inner is what the visit
\* of the body gave
FunctionDefVisited(node, inner) ==
    /\ out_defs' = out_defs \o inner.defs \o
            <<[node EXCEPT !.decorator_list = StripDecorators(node.decorator_list)]>>
    /\ fn_body' = IF def_idx = 1 THEN inner.body ELSE fn_body
    /\ def_idx' = def_idx + 1
    /\ UNCHANGED <<func_defs, feed_name_to_arg_name, passes, module_name, pc,
                   out_body, api_idx, class_node_dict, feed_name_to_arg_id,
                   name_to_tensor_shape, scope_var_type_dict, name_ids, api_log, api_pc,
                   ie_vars, shape_vars>>

\* A visit_FunctionDef that records every function definition it visits.
visit_FunctionDef_every ==
    /\ pc = "generic"
    /\ def_idx <= Len(func_defs)
    /\ decorate_func_name' = func_defs[def_idx].name
    /\ arg_name_to_idx' = ArgIndex(func_defs[def_idx].args) @@ arg_name_to_idx
    /\ FunctionDefVisited(func_defs[def_idx], VisitDefs(BodyOf(def_idx)))

\* self.visit(node_wrapper.node) reaching a function definition of the module:
\* visit_FunctionDef
visit_FunctionDef ==
    /\ pc = "generic"
    /\ def_idx <= Len(func_defs)
    /\ IF decorate_func_name = None
       THEN /\ decorate_func_name' = func_defs[def_idx].name
            /\ arg_name_to_idx' = ArgIndex(func_defs[def_idx].args) @@ arg_name_to_idx
       ELSE UNCHANGED <<decorate_func_name, arg_name_to_idx>>
    /\ FunctionDefVisited(func_defs[def_idx], VisitDefs(BodyOf(def_idx)))

\* basic_api_trans.ast_visit() returned r: the transformer's maps and the
\* rewritten body after it
ApiPassed(r) ==
    /\ scope_var_type_dict' = FunctionScope
    /\ class_node_dict' = r.S.class_node_dict
    /\ feed_name_to_arg_id' = r.S.feed_name_to_arg_id
    /\ name_to_tensor_shape' = r.S.name_to_tensor_shape
    /\ name_ids' = r.S.name_ids
    /\ out_body' = r.out
    /\ api_pc' = IF r.S.raised THEN "raised" ELSE "done"
    /\ pc' = IF r.S.raised THEN "raised" ELSE "feed"
    /\ passes' = passes \o <<"generic", "basic_api">>
    /\ UNCHANGED <<fn_body, api_idx, api_log>>

\* BasicApiTransformer(node_wrapper, visitor) and basic_api_trans.ast_visit().
\* The constructor takes sub_scopes[0], the scope of the first function
\* definition: IndexError when the source holds none.
BasicApiPass ==
    /\ pc = "generic"
    /\ def_idx > Len(func_defs)
    /\ IF func_defs = <<>>
       THEN /\ pc' = "raised"
            /\ passes' = Append(passes, "generic")
            /\ UNCHANGED api_vars
       ELSE ApiPassed(ApiVisitList(fn_body,
                [ApiState EXCEPT !.scope_var_type_dict = FunctionScope]))
    /\ UNCHANGED <<func_defs, def_idx, out_defs, decorate_func_name, arg_name_to_idx,
                   feed_name_to_arg_name, module_name, ie_vars, shape_vars>>

\* self.feed_name_to_arg_name = basic_api_trans.get_feed_name_to_arg_id()
ReadFeedMap ==
    /\ pc = "feed"
    /\ feed_name_to_arg_name' = feed_name_to_arg_id
    /\ passes' = Append(passes, "feed")
    /\ pc' = "if_else"
    /\ UNCHANGED <<func_defs, def_idx, out_defs, decorate_func_name, arg_name_to_idx,
                   module_name, ie_vars, api_vars, shape_vars>>

AfterVisited(r) ==
    /\ root' = r.node
    /\ new_func_nodes' = r.m

\* self.visit(self.root) returned v; after_visit then inserts the functions
IfElseTransformed(v) ==
    /\ AfterVisited(insert_func_nodes(v.node, v.fns))
    /\ name_cnt' = v.n
    /\ visit_log' = v.log

\* IfElseTransformer(node_wrapper).transform()
IfElsePass ==
    /\ pc = "if_else"
    /\ IfElseTransformed(VisitStmt(Module(<<FunctionDef(func_defs[1].name, out_body)>>), 0))
    /\ ie_pc' = "done"
    /\ passes' = Append(passes, "if_else")
    /\ pc' = "loop"
    /\ UNCHANGED <<func_defs, def_idx, out_defs, decorate_func_name, arg_name_to_idx,
                   feed_name_to_arg_name, module_name, api_vars, shape_vars>>

\* A transfer_from_node_type that runs the loop transformer only when the
\* function feeds something.
LoopPass_when_fed ==
    /\ pc = "loop"
    /\ passes' = IF feed_name_to_arg_name = NoMap THEN passes ELSE Append(passes, "loop")
    /\ pc' = "done"
    /\ UNCHANGED <<func_defs, def_idx, out_defs, decorate_func_name, arg_name_to_idx,
                   feed_name_to_arg_name, module_name, ie_vars, api_vars, shape_vars>>

\* LoopTransformer(node_wrapper).transform(); get_static_ast then returns
LoopPass ==
    /\ pc = "loop"
    /\ passes' = Append(passes, "loop")
    /\ pc' = "done"
    /\ UNCHANGED <<func_defs, def_idx, out_defs, decorate_func_name, arg_name_to_idx,
                   feed_name_to_arg_name, module_name, ie_vars, api_vars, shape_vars>>

\* get_module_name, called once get_static_ast has returned or raised
get_module_name ==
    /\ pc \in {"done", "raised"}
    /\ module_name = "none"
    /\ module_name' = IF decorate_func_name = None THEN "AssertionError"
                      ELSE decorate_func_name
    /\ UNCHANGED <<func_defs, def_idx, out_defs, decorate_func_name, arg_name_to_idx,
                   feed_name_to_arg_name, passes, pc, ie_vars, api_vars, shape_vars>>

NextOrch ==
    \/ get_static_ast
    \/ visit_FunctionDef
    \/ BasicApiPass
    \/ ReadFeedMap
    \/ IfElsePass
    \/ LoopPass
    \/ get_module_name

SpecOrch == InitOrch /\ [][NextOrch]_vars

-----------------------------------------------------------------------------
(* Properties of IfElseTransformer *)

\* Every statement list of a tree: the body and the else branch of every node.
RECURSIVE AllLists(_)
AllLists(node) ==
    LET own == IF node.k \in {"If", "While"} THEN {node.body, node.orelse}
               ELSE IF node.k \in {"Module", "FunctionDef"} THEN {node.body}
               ELSE {}
    IN own \cup UNION { UNION { AllLists(l[i]) : i \in DOMAIN l } : l \in own }

IsFuncDefNamed(s, name) == s.k = "FunctionDef" /\ s.name = name

FuncsRightBefore(l, i) ==
    /\ i > 2
    /\ IsFuncDefNamed(l[i - 2], l[i].true_fn)
    /\ IsFuncDefNamed(l[i - 1], l[i].false_fn)

\* C1: after transform() every branch-selection statement, in whatever statement
\* list it sits, is directly preceded in that list by its then-function and its
\* else-function, in that order, and new_func_nodes is empty.
C1_FuncsBeforeEveryCond ==
    ie_pc = "done" =>
        /\ DOMAIN new_func_nodes = {}
        /\ \A l \in AllLists(root) : \A i \in DOMAIN l :
              l[i].k = "Cond" => FuncsRightBefore(l, i)

IsDecidableIf(s) == s.k = "If" /\ ~is_control_flow_if(s.test)

\* An accessor call x.numpy() occurs somewhere in the expression.
RECURSIVE HasAccessor(_)
HasAccessor(e) ==
    CASE e.k = "Call" ->
            \/ (e.func.k = "Attribute" /\ e.func.attr = "numpy")
            \/ HasAccessor(e.func)
            \/ \E i \in DOMAIN e.args : HasAccessor(e.args[i])
      [] e.k = "Attribute" -> HasAccessor(e.value)
      [] e.k = "Subscript" -> HasAccessor(e.value) \/ HasAccessor(e.slice)
      [] OTHER -> FALSE

\* An accessor call occurs somewhere in the statement.
RECURSIVE StmtHasAccessor(_)
StmtHasAccessor(s) ==
    CASE s.k = "Assign" -> HasAccessor(s.value)
      [] s.k \in {"If", "While"} ->
            \/ HasAccessor(s.test)
            \/ \E i \in DOMAIN s.body : StmtHasAccessor(s.body[i])
            \/ \E i \in DOMAIN s.orelse : StmtHasAccessor(s.orelse[i])
      [] OTHER -> FALSE

\* C2: the node visit_If returns for a conditional with a statically decidable
\* test is the node it was given, with the same test and the same branches,
\* nested conditionals included.  Stated on the conditionals that hold no
\* accessor call, where visit_Call has nothing to rewrite.
C2_DecidableIfIdentical ==
    \A e \in visit_log :
        (IsDecidableIf(e.in) /\ ~StmtHasAccessor(e.in)) => e.out = e.in

\* The statement holds a conditional with an undecidable test or an accessor call.
RECURSIVE HasRewritable(_)
HasRewritable(s) ==
    CASE s.k = "Assign" -> HasAccessor(s.value)
      [] s.k \in {"If", "While"} ->
            \/ (s.k = "If" /\ is_control_flow_if(s.test))
            \/ HasAccessor(s.test)
            \/ \E i \in DOMAIN s.body : HasRewritable(s.body[i])
            \/ \E i \in DOMAIN s.orelse : HasRewritable(s.orelse[i])
      [] OTHER -> FALSE

\* C2 (amended): visit_If returns a conditional with a statically decidable test
\* as an `if` statement, never as a branch-selection statement, and returns it
\* identical to the input whenever it holds no conditional with an undecidable
\* test and no accessor call.
C2_DecidableIfKept ==
    \A e \in visit_log :
        IsDecidableIf(e.in) =>
            /\ e.out.k = "If"
            /\ (~HasRewritable(e.in) => e.out = e.in)

\* A decidable conditional holding an undecidable one was visited, and another
\* one holding nothing to rewrite.
C2_Witness ==
    /\ \E e \in visit_log :
          /\ IsDecidableIf(e.in)
          /\ \E i \in DOMAIN e.in.body : e.in.body[i].k = "If" /\ ~IsDecidableIf(e.in.body[i])
          /\ e.out.k = "If"
    /\ \E e \in visit_log : IsDecidableIf(e.in) /\ ~HasRewritable(e.in) /\ e.out = e.in

\* The rewrite the accessor rule describes: x.numpy() is dropped exactly where
\* it is the receiver of a subscript, at any depth of the expression.
RECURSIVE DropSubscriptedAccessor(_)
DropSubscriptedAccessor(e) ==
    CASE e.k = "Subscript" ->
            LET v == e.value
                recv == IF v.k = "Call" /\ v.func.k = "Attribute" /\ v.func.attr = "numpy"
                        THEN v.func.value ELSE v
            IN [e EXCEPT !.value = DropSubscriptedAccessor(recv),
                         !.slice = DropSubscriptedAccessor(e.slice)]
      [] e.k = "Attribute" -> [e EXCEPT !.value = DropSubscriptedAccessor(e.value)]
      [] e.k = "Call" ->
            [e EXCEPT !.func = DropSubscriptedAccessor(e.func),
                      !.args = [i \in DOMAIN e.args |-> DropSubscriptedAccessor(e.args[i])]]
      [] OTHER -> e

\* C9: an accessor call is removed exactly when it is the receiver of a
\* subscript; in any other position it is left as it is.
C9_AccessorDroppedOnlyUnderSubscript ==
    \A e \in visit_log :
        e.in.k = "Assign" => e.out.value = DropSubscriptedAccessor(e.in.value)


-----------------------------------------------------------------------------
(* Properties of BasicApiTransformer *)

IsShapeOfTensor(e) ==
    /\ e.k = "Attribute" /\ e.attr = "shape" /\ e.value.k = "Name"
    /\ e.value.id \in DOMAIN scope_var_type_dict
    /\ scope_var_type_dict[e.value.id] = {"TENSOR"}

\* The last three statements visited are a = t.shape, b = a, c = b[i], t a graph tensor.
ChainJustVisited ==
    /\ Len(api_log) >= 3
    /\ LET n == Len(api_log)
           s1 == api_log[n - 2].in
           s2 == api_log[n - 1].in
           s3 == api_log[n].in
       IN /\ s1.k = "Assign" /\ s2.k = "Assign" /\ s3.k = "Assign"
          /\ s1.target.k = "Name" /\ s2.target.k = "Name" /\ s3.target.k = "Name"
          /\ Cardinality({s1.target.id, s2.target.id, s3.target.id}) = 3
          /\ IsShapeOfTensor(s1.value)
          /\ s2.value = s1.target
          /\ s3.value.k = "Subscript" /\ s3.value.value = s2.target

\* C3: once the chain a = t.shape, b = a, c = b[i] has been visited in order,
\* t a graph tensor, a and b are keys of name_to_tensor_shape bound to the shape
\* access on t, and c is a key bound to the subscript of it.
C3_ChainTracked ==
    ChainJustVisited =>
        LET n == Len(api_log)
            s1 == api_log[n - 2].in
            s2 == api_log[n - 1].in
            s3 == api_log[n].in
        IN /\ {s1.target.id, s2.target.id, s3.target.id} \subseteq DOMAIN name_to_tensor_shape
           /\ name_to_tensor_shape[s1.target.id] = s1.value
           /\ name_to_tensor_shape[s2.target.id] = s1.value
           /\ name_to_tensor_shape[s3.target.id] = Subscript(s1.value, s3.value.slice)

\* The value of a tensor-construction call: its `value` keyword, or else its
\* first positional argument; <<>> when it has neither.
ValueOf(call) ==
    LET values == {i \in DOMAIN call.keywords : call.keywords[i].arg = "value"}
    IN IF values # {} THEN <<call.keywords[CHOOSE i \in values : TRUE].value>>
       ELSE IF call.args # <<>> THEN <<call.args[1]>> ELSE <<>>

IsToVariableOf(e, var) ==
    /\ e.k = "Call" /\ e.func = FluidApi("dygraph", "to_variable")
    /\ ValueOf(e) = <<Name(var)>>

RECURSIVE Sum(_)
Sum(q) == IF q = <<>> THEN 0 ELSE Head(q) + Sum(Tail(q))

\* How many to_variable calls on the name var the expression / statement holds.
RECURSIVE CountToVariable(_, _), CountInStmt(_, _)
CountToVariable(e, var) ==
    CASE e.k = "Call" ->
            (IF IsToVariableOf(e, var) THEN 1 ELSE 0)
            + CountToVariable(e.func, var)
            + Sum([i \in DOMAIN e.args |-> CountToVariable(e.args[i], var)])
            + Sum([i \in DOMAIN e.keywords |-> CountToVariable(e.keywords[i].value, var)])
      [] e.k = "Attribute" -> CountToVariable(e.value, var)
      [] e.k = "Subscript" -> CountToVariable(e.value, var) + CountToVariable(e.slice, var)
      [] OTHER -> 0
CountInStmt(s, var) ==
    CASE s.k \in {"Assign", "Expr"} -> CountToVariable(s.value, var)
      [] s.k = "Return" /\ "value" \in DOMAIN s -> CountToVariable(s.value, var)
      [] s.k \in {"If", "While"} ->
            CountToVariable(s.test, var)
            + Sum([i \in DOMAIN s.body |-> CountInStmt(s.body[i], var)])
            + Sum([i \in DOMAIN s.orelse |-> CountInStmt(s.orelse[i], var)])
      [] s.k = "FunctionDef" -> Sum([i \in DOMAIN s.body |-> CountInStmt(s.body[i], var)])
      [] OTHER -> 0

FeedVars == {"v"}

\* C4: after the pass, the Feed Map holds exactly one entry, under a feed name of
\* its own, for every to_variable call on a simple name, whatever statement the
\* call occurs in.
C4_OneFeedEntryPerCall ==
    api_pc = "done" =>
        \A var \in FeedVars :
            Cardinality({f \in DOMAIN feed_name_to_arg_id : feed_name_to_arg_id[f] = var})
                = Sum([i \in DOMAIN fn_body |-> CountInStmt(fn_body[i], var)])

\* The statement assigns a to_variable call whose value is not a simple name.
AssignsNonNameToVariable(s) ==
    /\ s.k = "Assign"
    /\ s.value.k = "Call" /\ s.value.func = FluidApi("dygraph", "to_variable")
    /\ ValueOf(s.value) # <<>>
    /\ ValueOf(s.value)[1].k # "Name"

\* C5: a to_variable call whose value is not a simple name is left as it is, no
\* Feed Map entry is added for it, and the pass goes on without an error.
C5_NonNameCallLeftUntransformed ==
    \A i \in DOMAIN api_log :
        AssignsNonNameToVariable(api_log[i].in) =>
            /\ api_log[i].out = <<api_log[i].in>>
            /\ api_log[i].feed_after = api_log[i].feed_before
            /\ ~api_log[i].raised

IsAssignCallOn(e, value) ==
    /\ e.k = "Call" /\ e.func = FluidApi("layers", "assign")
    /\ \/ (e.args = <<value>> /\ e.keywords = <<>>)
       \/ (e.args = <<>> /\ e.keywords = <<keyword("input", value)>>)

\* C5 (amended): a to_variable call that is the value of an assignment and whose
\* value is not a simple name is still replaced by the fluid.layers.assign call
\* on that value; no Feed Map entry is added for it and no error is raised.
C5_NonNameCallReplacedWithoutFeed ==
    \A i \in DOMAIN api_log :
        AssignsNonNameToVariable(api_log[i].in) =>
            /\ Len(api_log[i].out) = 1
            /\ api_log[i].out[1].k = "Assign"
            /\ api_log[i].out[1].target = api_log[i].in.target
            /\ IsAssignCallOn(api_log[i].out[1].value, ValueOf(api_log[i].in.value)[1])
            /\ api_log[i].feed_after = api_log[i].feed_before
            /\ ~api_log[i].raised

\* Such an assignment was visited after the Feed Map got an entry, positional
\* value and keyword value both.
C5_Witness ==
    /\ api_pc = "done"
    /\ \E i, j \in DOMAIN api_log :
          /\ AssignsNonNameToVariable(api_log[i].in)
          /\ AssignsNonNameToVariable(api_log[j].in)
          /\ api_log[i].in.value.args # <<>>
          /\ api_log[j].in.value.args = <<>>
          /\ (api_log[i].feed_before # NoMap \/ api_log[j].feed_before # NoMap)

\* Some call of the expression / statement has the callee func.
RECURSIVE Calls(_, _), StmtCalls(_, _)
Calls(e, func) ==
    CASE e.k = "Call" ->
            \/ e.func = func
            \/ Calls(e.func, func)
            \/ \E i \in DOMAIN e.args : Calls(e.args[i], func)
            \/ \E i \in DOMAIN e.keywords : Calls(e.keywords[i].value, func)
      [] e.k = "Attribute" -> Calls(e.value, func)
      [] e.k = "Subscript" -> Calls(e.value, func) \/ Calls(e.slice, func)
      [] OTHER -> FALSE
StmtCalls(s, func) ==
    CASE s.k \in {"Assign", "Expr"} -> Calls(s.value, func)
      [] s.k = "Return" /\ "value" \in DOMAIN s -> Calls(s.value, func)
      [] s.k \in {"If", "While"} ->
            \/ Calls(s.test, func)
            \/ \E i \in DOMAIN s.body : StmtCalls(s.body[i], func)
            \/ \E i \in DOMAIN s.orelse : StmtCalls(s.orelse[i], func)
      [] s.k = "FunctionDef" -> \E i \in DOMAIN s.body : StmtCalls(s.body[i], func)
      [] OTHER -> FALSE

\* The visit recorded the assignment in class_node_dict and removed it.
IsRemovedInstantiation(entry) ==
    /\ entry.in.k = "Assign"
    /\ entry.out = <<>>
    /\ to_source(entry.in.target) \in DOMAIN class_node_dict

\* C6: once `m = DynamicClass(...)` is recorded and removed, no statement
\* returned for a later statement still calls m.
C6_NoCallOfRemovedInstance ==
    \A i, j \in DOMAIN api_log :
        (i < j /\ IsRemovedInstantiation(api_log[i])) =>
            \A q \in DOMAIN api_log[j].out :
                ~StmtCalls(api_log[j].out[q], api_log[i].in.target)


-----------------------------------------------------------------------------
(* Properties of is_tensor_shape *)

Tracked(v) == v \in DOMAIN name_to_tensor_shape

TypedAsTensor(v) ==
    /\ v \in DOMAIN scope_var_type_dict
    /\ "NUMPY_NDARRAY" \notin scope_var_type_dict[v]
    /\ \/ "TENSOR" \in scope_var_type_dict[v]
       \/ "PADDLE_RETURN_TYPES" \in scope_var_type_dict[v]

\* C10: is_tensor_shape(v.attr) is true exactly when attr is shape, v is a simple
\* name, and v is a key of name_to_tensor_shape or else is typed as a tensor or a
\* paddle return value and not as a numpy array; it returns, false, for a name that
\* is neither tracked nor in the environment, and a tracked name is a tensor shape
\* whatever the environment says of it.
C10_IsTensorShape ==
    shape_result # <<>> =>
        (shape_result[1] <=>
            /\ shape_node.attr = "shape"
            /\ shape_node.value.k = "Name"
            /\ (Tracked(shape_node.value.id) \/ TypedAsTensor(shape_node.value.id)))

\* is_tensor_shape answered true for a tracked name the environment types as a
\* numpy array.
C10_Witness ==
    /\ shape_result = <<TRUE>>
    /\ shape_node.value.k = "Name"
    /\ Tracked(shape_node.value.id)
    /\ shape_node.value.id \in DOMAIN scope_var_type_dict
    /\ "NUMPY_NDARRAY" \in scope_var_type_dict[shape_node.value.id]

-----------------------------------------------------------------------------
(* Properties of DygraphToStaticAst *)

PassOrder == <<"generic", "basic_api", "feed", "if_else", "loop">>

IsPrefix(p, q) == Len(p) <= Len(q) /\ p = SubSeq(q, 1, Len(p))

\* C7: the passes run once each in the order generic visit, BasicApiTransformer,
\* (reading its feed map), IfElseTransformer, LoopTransformer: what has run so far
\* is always a prefix of that order, the feed map the orchestrator holds before
\* IfElseTransformer starts is BasicApiTransformer's, and a conversion that
\* returns has run all of them, LoopTransformer included.
C7_PassOrder ==
    /\ IsPrefix(passes, PassOrder)
    /\ (pc \in {"if_else", "loop", "done"} => feed_name_to_arg_name = feed_name_to_arg_id)
    /\ (ie_pc = "done" => Len(passes) >= 4)
    /\ (pc = "done" => passes = PassOrder)

\* A conversion returned for a function that feeds nothing.
C7_Witness ==
    /\ pc = "done"
    /\ passes = PassOrder
    /\ feed_name_to_arg_name = NoMap

\* C8: once a function definition has been visited, decorate_func_name is the
\* name of the first one visited and arg_name_to_idx the index of that one's
\* positional parameters, however many more are visited; with no function
\* definition the name stays None and get_module_name fails.
C8_EntryPointIsFirstDef ==
    /\ (pc # "get_static_ast" /\ def_idx > 1) =>
          /\ decorate_func_name = func_defs[1].name
          /\ DOMAIN arg_name_to_idx = {func_defs[1].args[i] : i \in DOMAIN func_defs[1].args}
          /\ \A i \in DOMAIN func_defs[1].args :
                arg_name_to_idx[func_defs[1].args[i]] = i - 1
    /\ (def_idx = 1 => decorate_func_name = None /\ arg_name_to_idx = NoMap)
    /\ module_name # "none" =>
          module_name = IF func_defs = <<>> THEN "AssertionError" ELSE func_defs[1].name

\* Two function definitions of different names and parameters were visited, and
\* get_module_name answered.
C8_Witness ==
    /\ Len(func_defs) = 2
    /\ def_idx = 3
    /\ func_defs[1].name # func_defs[2].name
    /\ func_defs[1].args # func_defs[2].args
    /\ module_name = func_defs[1].name

====
